---------------------------- MODULE Spec2Model ----------------------------
(***************************************************************************)
(* A model of tts_bot.py: the text chunker (split_text_into_chunks), the   *)
(* Azure backend with its SDK-then-REST fallback (azure_text_to_speech),   *)
(* and the per-request pipelines (handle_text, handle_document, the EPUB   *)
(* branch of callback_handler, process_text_to_speech, process_text_chunk).*)
(*                                                                         *)
(* A text is a sequence of one-character strings.  Positions returned by   *)
(* RFind and used by the cut rules are 0-based, as in Python.              *)
(***************************************************************************)
EXTENDS Integers, Sequences, FiniteSets, TLC

(***************************************************************************)
(* Bounds of the model.                                                    *)
(***************************************************************************)
\* longest text given to the chunker
MaxLen == 5
\* largest max_chunk_size given to the chunker
MaxSize == 4

\* the ceiling on a whole input, scaled down: MAX_TEXT_LENGTH is 204800 in
\* the program
MAX_TEXT_LENGTH == 5
\* the pipelines' max_chunk_size, scaled down: 4000 in the program
MAX_CHUNK_SIZE == 2

\* characters of the chunker's texts: a letter, the two whitespace
\* characters the cut rules look for, and two of the sentence terminators
Alphabet == {"a", " ", "\n", ".", "?"}

\* longest book title and file base name, and most parts, that are named
MaxNameLen == 100
MaxTotal == 3

\* longest text and largest max_chunk_size where the cut rules are examined
CutLen == 6
CutSize == 5

\* characters of those texts: the third sentence terminator in place of
\* the question mark
CutAlphabet == (Alphabet \ {"?"}) \cup {"!"}

\* a larger max_chunk_size, where a sentence boundary fits to the right of a
\* paragraph break beyond the middle, and the most pieces of a text cut at it
WideSize == 9
WidePieces == 5

\* the pieces those texts are made of: words, a space, a paragraph break and
\* two of the six sentence boundaries
Pieces == { <<"a">>, <<"a", "a", "a">>, <<" ">>, <<"\n", "\n">>,
            <<"?", " ">>, <<"!", "\n">> }

Min(a, b) == IF a <= b THEN a ELSE b

SetMax(S) == CHOOSE x \in S : \A y \in S : y <= x

\* all sequences over S of length 0..n
SeqsUpTo(S, n) == UNION {[1..k -> S] : k \in 0..n}

\* the concatenation of a sequence of strings
RECURSIVE Concat(_)
Concat(ss) == IF ss = <<>> THEN <<>> ELSE Head(ss) \o Concat(Tail(ss))

\* the texts made of at most WidePieces pieces
WideTexts == {Concat(ss) : ss \in SeqsUpTo(Pieces, WidePieces)}

(***************************************************************************)
(* Python string primitives used by split_text_into_chunks.                *)
(***************************************************************************)
\* the characters str.strip() removes (those of them in the alphabet)
IsSpace(c) == c \in {" ", "\n"}

RECURSIVE LStrip(_)
LStrip(s) == IF s # <<>> /\ IsSpace(Head(s)) THEN LStrip(Tail(s)) ELSE s

RECURSIVE RStrip(_)
RStrip(s) ==
    IF s # <<>> /\ IsSpace(s[Len(s)]) THEN RStrip(SubSeq(s, 1, Len(s) - 1)) ELSE s

\* a mutant of Strip: the text is returned untrimmed
StripNothing(s) == s

\* s.strip()
Strip(s) == RStrip(LStrip(s))

\* s[:k] for k >= 0
SliceTo(s, k) == SubSeq(s, 1, Min(k, Len(s)))

\* s[k:] for k >= 0
SliceFrom(s, k) == SubSeq(s, Min(k, Len(s)) + 1, Len(s))

\* s.rfind(sub, start, end) for start, end >= 0: the highest 0-based index i
\* with start <= i, i + len(sub) <= min(end, len(s)) and s[i:i+len(sub)] = sub,
\* or -1
RFind(s, sub, start, end) ==
    LET hi   == Min(end, Len(s))
        cand == {i \in start..(hi - Len(sub)) : SubSeq(s, i + 1, i + Len(sub)) = sub}
    IN  IF cand = {} THEN -1 ELSE SetMax(cand)

(***************************************************************************)
(* split_text_into_chunks: the choice of the cut point.                    *)
(***************************************************************************)
\* the list the sentence scan iterates over, in the code's order
Puncts == << <<".", " ">>, <<"?", " ">>, <<"!", " ">>,
             <<".", "\n">>, <<"?", "\n">>, <<"!", "\n">> >>

\* a mutant of SentenceScan: the scan stops at the first variant it finds
RECURSIVE SentenceScanStopsAtFirst(_, _, _, _)
SentenceScanStopsAtFirst(r, m, k, sentence_end) ==
    IF k > Len(Puncts) THEN sentence_end
    ELSE LET pos == RFind(r, Puncts[k], 0, m - 1)
         IN  IF pos > sentence_end THEN pos + 1
             ELSE SentenceScanStopsAtFirst(r, m, k + 1, sentence_end)

\* the for loop over Puncts from its k-th element on, sentence_end so far
RECURSIVE SentenceScan(_, _, _, _)
SentenceScan(r, m, k, sentence_end) ==
    IF k > Len(Puncts) THEN sentence_end
    ELSE LET pos == RFind(r, Puncts[k], 0, m - 1)
         IN  SentenceScan(r, m, k + 1,
                          IF pos > sentence_end THEN pos + 1 ELSE sentence_end)

\* a mutant of SentenceEnd: terminators up to position m - 1 are found
SentenceEndToMaxSize(r, m) == SentenceScan(r, m + 2, 1, -1)

SentenceEnd(r, m) == SentenceScan(r, m, 1, -1)

\* a mutant of ChunkEnd: the paragraph break is searched in the whole
\* remaining text, not only in its first m characters
ChunkEndUnboundedSearch(r, m) ==
    LET paragraph_break == RFind(r, <<"\n", "\n">>, 0, Len(r))
    IN  IF paragraph_break = -1 \/ paragraph_break < m \div 2
        THEN LET sentence_end == SentenceEnd(r, m)
             IN  IF sentence_end < m \div 2
                 THEN LET space_pos == RFind(r, <<" ">>, m \div 2, m)
                      IN  IF space_pos # -1 THEN space_pos ELSE m
                 ELSE sentence_end + 1
        ELSE paragraph_break + 2

\* a mutant of ChunkEnd: the last paragraph break of the first m characters
\* is taken wherever it lies
ChunkEndAnyParagraph(r, m) ==
    LET paragraph_break == RFind(r, <<"\n", "\n">>, 0, m)
    IN  IF paragraph_break = -1
        THEN LET sentence_end == SentenceEnd(r, m)
             IN  IF sentence_end < m \div 2
                 THEN LET space_pos == RFind(r, <<" ">>, m \div 2, m)
                      IN  IF space_pos # -1 THEN space_pos ELSE m
                 ELSE sentence_end + 1
        ELSE paragraph_break + 2

\* a mutant of ChunkEnd: the space is searched from the start of the text
ChunkEndWordAnywhere(r, m) ==
    LET paragraph_break == RFind(r, <<"\n", "\n">>, 0, m)
    IN  IF paragraph_break = -1 \/ paragraph_break < m \div 2
        THEN LET sentence_end == SentenceEnd(r, m)
             IN  IF sentence_end < m \div 2
                 THEN LET space_pos == RFind(r, <<" ">>, 0, m)
                      IN  IF space_pos # -1 THEN space_pos ELSE m
                 ELSE sentence_end + 1
        ELSE paragraph_break + 2

\* a mutant of ChunkEnd: the space is searched in the first half of the
\* window
ChunkEndWordLowerHalf(r, m) ==
    LET paragraph_break == RFind(r, <<"\n", "\n">>, 0, m)
    IN  IF paragraph_break = -1 \/ paragraph_break < m \div 2
        THEN LET sentence_end == SentenceEnd(r, m)
             IN  IF sentence_end < m \div 2
                 THEN LET space_pos == RFind(r, <<" ">>, 0, m \div 2)
                      IN  IF space_pos # -1 THEN space_pos ELSE m
                 ELSE sentence_end + 1
        ELSE paragraph_break + 2

\* chunk_end for the remaining text r (longer than m) and max_chunk_size m
ChunkEnd(r, m) ==
    LET paragraph_break == RFind(r, <<"\n", "\n">>, 0, m)
    IN  IF paragraph_break = -1 \/ paragraph_break < m \div 2
        THEN LET sentence_end == SentenceEnd(r, m)
             IN  IF sentence_end < m \div 2
                 THEN LET space_pos == RFind(r, <<" ">>, m \div 2, m)
                      IN  IF space_pos # -1 THEN space_pos ELSE m
                 ELSE sentence_end + 1
        ELSE paragraph_break + 2

\* the chunk appended by one pass of the loop
CutChunk(r, e) == Strip(SliceTo(r, e))

\* a mutant of RestAfterCut: the character at the cut point is skipped
RestAfterCutSkipsOne(r, e) == Strip(SliceFrom(r, e + 1))

\* the remaining text after one pass of the loop
RestAfterCut(r, e) == Strip(SliceFrom(r, e))

\* the while loop as a function: the chunks list at return
RECURSIVE SplitLoop(_, _, _)
SplitLoop(r, cs, m) ==
    IF r = <<>> THEN cs
    ELSE IF Len(r) <= m THEN Append(cs, r)
    ELSE LET e == ChunkEnd(r, m)
         IN  SplitLoop(RestAfterCut(r, e), Append(cs, CutChunk(r, e)), m)

\* split_text_into_chunks(text, max_chunk_size)
SplitTextIntoChunks(t, m) == IF Len(t) <= m THEN <<t>> ELSE SplitLoop(t, <<>>, m)

(***************************************************************************)
(* State.                                                                  *)
(***************************************************************************)
VARIABLES
    \* split_text_into_chunks, run step by step
    text,            \* the argument text
    max_chunk_size,  \* the argument max_chunk_size
    remaining_text,  \* the local remaining_text
    chunks,          \* the local chunks
    split_pc,        \* "call", "loop" (at the while test) or "done" (returned)
    chunk_end        \* the local chunk_end of the last cut, -1 before the first

splitVars == <<text, max_chunk_size, remaining_text, chunks, split_pc, chunk_end>>

VARIABLES
    \* the process: module globals read from the environment
    azure_cfg,       \* [key, url, region]: AZURE_SPEECH_KEY, _URL, _REGION
    \* the user: context.user_data
    user_data,       \* [tts_service, voice_id, azure_voice_name]
    \* the settings store: this user's entry of bot_data['user_settings']
    user_settings,   \* {} without an entry, else {the entry}
    \* one request (a text message, a PDF/TXT document, an EPUB chapter)
    job_pc,          \* "idle", "rejected", "chunk" (at the head of the loop),
                     \* "az_sdk", "az_rest", "synth_done", "deliver" or "done"
    flow,            \* "text", "document" or "epub"
    job_text,        \* the text, extracted text or chapter text
    text_chunks,     \* the local text_chunks
    part,            \* the loop variable i
    audio_content,   \* the local audio_content
    error_message,   \* the local error_message
    raised,          \* an exception is propagating to the chunk's except clause
    sdk_result,      \* azure_text_to_speech's (audio_data, error) after the SDK call
    rest_result,     \* what azure_rest_synthesis returned to it
    \* what the request did, in order
    statuses,        \* status texts sent (reply_text) or written (edit_message_text)
    attempts,        \* calls of a backend's text-to-speech function
    calls,           \* for the current chunk: calls made by azure_text_to_speech
    requests,        \* for the current chunk: network requests started
    results,         \* per chunk: delivered as voice, as audio, or failed, and
                     \* the part suffix of its caption
    live_files,      \* temporary files that exist
    split_calls      \* calls of split_text_into_chunks

jobVars == <<azure_cfg, user_data, user_settings, job_pc, flow, job_text, text_chunks, part,
             audio_content, error_message, raised, sdk_result, rest_result,
             statuses, attempts, calls, requests, results, live_files, split_calls>>

VARIABLES
    \* the naming of the delivered parts of one request
    naming,          \* [flow, book_title, chapter_title, base_name, total_chunks]
    labels           \* the captions given to reply_voice so far, one per part

labelVars == <<naming, labels>>

VARIABLES
    \* two users served by the same process
    duo_store,       \* bot_data['user_settings']: per user {} or {the entry}
    duo_data,        \* each user's context.user_data
    duo_jobs         \* each user's request: [pc, text, file_name_base,
                     \* text_chunks, tts_service, calls, labels]

duoVars == <<duo_store, duo_data, duo_jobs>>

vars == <<text, max_chunk_size, remaining_text, chunks, split_pc, chunk_end,
          naming, labels, duo_store, duo_data, duo_jobs,
          azure_cfg, user_data, user_settings, job_pc, flow, job_text, text_chunks, part,
          audio_content, error_message, raised, sdk_result, rest_result,
          statuses, attempts, calls, requests, results, live_files, split_calls>>

(***************************************************************************)
(* Values of the pipelines.                                                *)
(***************************************************************************)
\* Python's None, where the other values are strings
None == "None"

\* the truth value Python gives None, a string or a bytes object
Truthy(x) == x # None /\ x # ""

\* an error message is modelled as the set of diagnostics its text carries;
\* the empty set stands for None (no error message)
NoError == {}

Msg(d) == {d}

TTS_SERVICE_ELEVENLABS == "elevenlabs"

TTS_SERVICE_AZURE == "azure"

ELEVEN_LABS_VOICE_ID == "EXAVITQu4vr4xnSDxMaL"

AZURE_SPEECH_VOICE_NAME == "en-US-JennyNeural"

PLACEHOLDER_KEY == "your_azure_speech_key_here"

DEFAULT_SETTINGS ==
    [tts_service |-> TTS_SERVICE_ELEVENLABS,
     voice_id |-> ELEVEN_LABS_VOICE_ID,
     azure_voice_name |-> AZURE_SPEECH_VOICE_NAME]

\* the environments the process may run in: a key with each choice of
\* endpoint and region, and each kind of missing key
AzureCfgs ==
    [key : {"key"}, url : {None, "https://endpoint"}, region : {None, "westeurope"}]
    \cup [key : {None, "", PLACEHOLDER_KEY}, url : {"https://endpoint"},
          region : {"westeurope"}]

\* the settings a user may have chosen from the menus: either service,
\* with the default voices or with other ones
UserDatas ==
    {[tts_service |-> srv, voice_id |-> v[1], azure_voice_name |-> v[2]] :
        srv \in {TTS_SERVICE_ELEVENLABS, TTS_SERVICE_AZURE},
        v \in {<<ELEVEN_LABS_VOICE_ID, AZURE_SPEECH_VOICE_NAME>>,
               <<"AZnzlk1XvdvUeBnXmlld", "zh-CN-XiaoxiaoNeural">>}}

\* context.user_data of a user the process has not served since its start
EmptyUserData == [tts_service |-> None, voice_id |-> None, azure_voice_name |-> None]

\* user_data and the user's entry of the store when a request arrives: a
\* new user, a known user after a restart, a known user served before
SettingsStates ==
    {<<EmptyUserData, {}>>}
    \cup {<<EmptyUserData, {s}>> : s \in UserDatas}
    \cup {<<s, {s}>> : s \in UserDatas}

\* a mutant of EnsureUserSettings: the defaults are written whenever the
\* settings are not loaded from the store
EnsureWritesDefaults(stored, data) ==
    IF stored # {} /\ data = EmptyUserData
    THEN [stored |-> stored, data |-> CHOOSE s \in stored : TRUE]
    ELSE [stored |-> {DEFAULT_SETTINGS}, data |-> DEFAULT_SETTINGS]

\* ensure_user_settings: the user's entry of the store and user_data after
\* the call
EnsureUserSettings(stored, data) ==
    IF stored # {} /\ data = EmptyUserData
    THEN [stored |-> stored, data |-> CHOOSE s \in stored : TRUE]
    ELSE IF stored = {}
    THEN [stored |-> {DEFAULT_SETTINGS}, data |-> DEFAULT_SETTINGS]
    ELSE [stored |-> stored, data |-> data]

\* characters of the texts given to the pipelines
JobAlphabet == {"a"}

\* the texts a request may carry: up to one character over the ceiling
JobTexts == SeqsUpTo(JobAlphabet, MAX_TEXT_LENGTH + 1)

\* what the network and the providers may answer
ElevenOutcomes == {"ok", "ok_empty", "status_error", "post_raises"}

SdkOutcomes == {"config_raises", "completed", "completed_empty", "canceled",
                "failed", "speak_raises"}

RestOutcomes == {"ok", "ok_empty", "status_error", "timeout", "post_raises"}

VoiceOutcomes == {"ok", "forbidden", "too_large", "other_error"}

AudioOutcomes == {"ok", "error"}

(***************************************************************************)
(* The synthesis backends.                                                 *)
(***************************************************************************)
\* elevenlabs_text_to_speech: requests.post may raise (no try in the
\* function); a non-200 status gives None, else response.content
ElevenLabsTextToSpeech(env) ==
    CASE env = "post_raises"  -> [audio |-> None, raises |-> TRUE]
      [] env = "status_error" -> [audio |-> None, raises |-> FALSE]
      [] env = "ok_empty"     -> [audio |-> "", raises |-> FALSE]
      [] env = "ok"           -> [audio |-> "mp3", raises |-> FALSE]

\* a mutant of KeyMissing: the placeholder value is taken for a key
KeyMissingIgnoresPlaceholder(key) == ~Truthy(key)

\* the credential test of azure_text_to_speech
KeyMissing(key) == ~Truthy(key) \/ key = PLACEHOLDER_KEY

\* a mutant of EffectiveVoice: the default voice is used whatever was passed
EffectiveVoiceDefault(voice_name) == AZURE_SPEECH_VOICE_NAME

\* the voice azure_text_to_speech uses
EffectiveVoice(voice_name) ==
    IF ~Truthy(voice_name) THEN AZURE_SPEECH_VOICE_NAME ELSE voice_name

\* azure_sdk_synthesis: what it returns, whether synthesis was started
\* (speak_ssml_async) and whether its output file is left behind
AzureSdkSynthesis(cfg, env) ==
    IF ~Truthy(cfg.url) /\ ~Truthy(cfg.region)
    THEN [audio |-> None, request |-> FALSE, file_left |-> FALSE,
          error |-> Msg("Either Azure Speech URL or region must be provided")]
    ELSE CASE env = "config_raises" ->
                [audio |-> None, request |-> FALSE, file_left |-> FALSE,
                 error |-> Msg("Azure SDK synthesis error")]
           [] env = "completed" ->
                [audio |-> "mp3", request |-> TRUE, file_left |-> FALSE,
                 error |-> NoError]
           [] env = "completed_empty" ->
                [audio |-> "", request |-> TRUE, file_left |-> FALSE,
                 error |-> NoError]
           [] env = "canceled" ->
                [audio |-> None, request |-> TRUE, file_left |-> FALSE,
                 error |-> Msg("Azure TTS cancelled")]
           [] env = "failed" ->
                [audio |-> None, request |-> TRUE, file_left |-> FALSE,
                 error |-> Msg("Azure TTS failed with reason")]
           [] env = "speak_raises" ->
                [audio |-> None, request |-> TRUE, file_left |-> TRUE,
                 error |-> Msg("Azure SDK synthesis error")]

\* azure_rest_synthesis: what it returns and whether the POST was started;
\* with AZURE_SPEECH_URL unset, rstrip raises inside the try
AzureRestSynthesis(cfg, env) ==
    IF cfg.url = None
    THEN [audio |-> None, request |-> FALSE, error |-> Msg("Azure REST API error")]
    ELSE CASE env = "ok" ->
                [audio |-> "mp3", request |-> TRUE, error |-> NoError]
           [] env = "ok_empty" ->
                [audio |-> "", request |-> TRUE, error |-> NoError]
           [] env = "status_error" ->
                [audio |-> None, request |-> TRUE,
                 error |-> Msg("Azure REST API error: Status")]
           [] env = "timeout" ->
                [audio |-> None, request |-> TRUE,
                 error |-> Msg("Azure REST API timeout")]
           [] env = "post_raises" ->
                [audio |-> None, request |-> TRUE,
                 error |-> Msg("Azure REST API error")]

\* a mutant of SdkGaveAudio: any result other than None counts as audio
SdkGaveAudioIfNotNone(audio_data) == audio_data # None

\* azure_text_to_speech: "if audio_data:" after the SDK call
SdkGaveAudio(audio_data) == Truthy(audio_data)

\* azure_text_to_speech: the error returned after the REST attempt
FallbackError(sdk_error, rest_error) == rest_error

(***************************************************************************)
(* The pipelines: helpers.                                                 *)
(***************************************************************************)
Digits == <<"0", "1", "2", "3", "4", "5", "6", "7", "8", "9">>

\* str(n) for n >= 0
RECURSIVE DecimalStr(_)
DecimalStr(n) ==
    IF n < 10 THEN <<Digits[n + 1]>>
    ELSE DecimalStr(n \div 10) \o <<Digits[(n % 10) + 1]>>

\* f"_part_{i}_of_{total_chunks}"
PartSuffix(i, total) ==
    <<"_", "p", "a", "r", "t", "_">> \o DecimalStr(i) \o <<"_", "o", "f", "_">>
        \o DecimalStr(total)

Status(kind, k) == [kind |-> kind, part |-> k, error |-> NoError]

StatusWithError(kind, k, e) == [kind |-> kind, part |-> k, error |-> e]

IsPlain(f) == f \in {"text", "document"}

\* a mutant of TooLong: an input of exactly the ceiling is rejected too
TooLongAtCeiling(t) == Len(t) >= MAX_TEXT_LENGTH

\* the test made on the whole input before any processing
TooLong(t) == Len(t) > MAX_TEXT_LENGTH

\* statuses between the length test and the first chunk
EntryStatuses(f, total) ==
    IF IsPlain(f)
    THEN IF total = 1 THEN <<Status("converting_single", 0)>>
         ELSE <<Status("multi_intro", 0)>>
    ELSE <<Status("converting_chapter", 0)>>
         \o (IF total = 1 THEN <<>> ELSE <<Status("multi_intro", 1)>>)

\* a mutant of ChunkIntro: the status shows the total where the part goes
ChunkIntroShowsTotal(f, k, total) ==
    IF IsPlain(f)
    THEN IF total = 1 THEN <<>> ELSE <<Status("converting_part", total)>>
    ELSE IF total > 1 /\ k > 1 THEN <<Status("converting_part", total)>> ELSE <<>>

\* the progress status sent before chunk k is synthesized
ChunkIntro(f, k, total) ==
    IF IsPlain(f)
    THEN IF total = 1 THEN <<>> ELSE <<Status("converting_part", k)>>
    ELSE IF total > 1 /\ k > 1 THEN <<Status("converting_part", k)>> ELSE <<>>

\* a mutant of PartFileSuffix: a request of one part is numbered too
PartFileSuffixAlways(f, i, total) ==
    IF IsPlain(f) THEN PartSuffix(i, total) ELSE <<"-">> \o DecimalStr(i)

\* what is appended to the base name in the caption of part i: nothing for
\* a request of one part, else "_part_{i}_of_{total_chunks}" or "-{i}"
PartFileSuffix(f, i, total) ==
    IF total = 1 THEN <<>>
    ELSE IF IsPlain(f) THEN PartSuffix(i, total)
    ELSE <<"-">> \o DecimalStr(i)

\* a mutant of AfterFailure: a failed chunk ends the loop
AfterFailureBreak(k, total) == total + 1

\* the index the loop goes on with after chunk k failed (continue, or the
\* return value of process_text_chunk being ignored)
AfterFailure(k, total) == k + 1

\* the delivery of a chunk's audio (reply_voice, then reply_audio) for the
\* answers v and a of the transport: how the chunk ends, the failure
\* status sent, and whether os.unlink(temp_audio_path) is reached
Delivery(f, v, a) ==
    IF v = "ok" THEN [outcome |-> "voice", report |-> "", unlinked |-> TRUE]
    ELSE IF v = "forbidden" \/ (~IsPlain(f) /\ v = "too_large")
    THEN IF a = "ok" THEN [outcome |-> "audio", report |-> "", unlinked |-> TRUE]
         ELSE IF IsPlain(f)
         THEN [outcome |-> "failed", report |-> "exception_error", unlinked |-> FALSE]
         ELSE [outcome |-> "failed", report |-> "send_failed", unlinked |-> TRUE]
    ELSE [outcome |-> "failed", report |-> "exception_error", unlinked |-> FALSE]

SdkOutputFile(k) == [part |-> k, kind |-> "sdk_output"]

TempAudioFile(k) == [part |-> k, kind |-> "temp_audio"]

\* the state of a process that has received no request
\* no part has been named
LabelIdle ==
    /\ naming = [flow |-> "none", book_title |-> <<>>, chapter_title |-> <<>>,
                 base_name |-> <<>>, total_chunks |-> 0]
    /\ labels = <<>>

Users == {"u1", "u2"}

\* no request of the two users is followed
DuoIdle ==
    /\ duo_store = [u \in Users |-> {}]
    /\ duo_data = [u \in Users |-> EmptyUserData]
    /\ duo_jobs = [u \in Users |->
                      [pc |-> "none", text |-> <<>>, file_name_base |-> <<>>,
                       text_chunks |-> <<>>, tts_service |-> None,
                       calls |-> <<>>, labels |-> <<>>]]

JobIdle ==
    /\ azure_cfg = [key |-> None, url |-> None, region |-> None]
    /\ user_data = DEFAULT_SETTINGS
    /\ user_settings = {DEFAULT_SETTINGS}
    /\ job_pc = "idle"
    /\ flow = "none"
    /\ job_text = <<>>
    /\ text_chunks = <<>>
    /\ part = 0
    /\ audio_content = None
    /\ error_message = NoError
    /\ raised = FALSE
    /\ sdk_result = [audio |-> None, error |-> NoError]
    /\ rest_result = [audio |-> None, error |-> NoError]
    /\ statuses = <<>>
    /\ attempts = <<>>
    /\ calls = <<>>
    /\ requests = <<>>
    /\ results = <<>>
    /\ live_files = {}
    /\ split_calls = 0

(***************************************************************************)
(* The chunker, one action per path through the function.                  *)
(***************************************************************************)
SplitInit ==
    /\ text \in SeqsUpTo(Alphabet, MaxLen)
    /\ max_chunk_size \in 1..MaxSize
    /\ remaining_text = <<>>
    /\ chunks = <<>>
    /\ split_pc = "call"
    /\ chunk_end = -1
    /\ JobIdle
    /\ LabelIdle
    /\ DuoIdle

\* a mutant of SplitReturnWhole: the short text is trimmed like a cut chunk
SplitReturnWholeTrimmed ==
    /\ split_pc = "call"
    /\ Len(text) <= max_chunk_size
    /\ chunks' = <<Strip(text)>>
    /\ split_pc' = "done"
    /\ UNCHANGED <<text, max_chunk_size, remaining_text, chunk_end>>
    /\ UNCHANGED <<jobVars, labelVars, duoVars>>

\* len(text) <= max_chunk_size: return [text]
SplitReturnWhole ==
    /\ split_pc = "call"
    /\ Len(text) <= max_chunk_size
    /\ chunks' = <<text>>
    /\ split_pc' = "done"
    /\ UNCHANGED <<text, max_chunk_size, remaining_text, chunk_end>>
    /\ UNCHANGED <<jobVars, labelVars, duoVars>>

\* chunks = [], remaining_text = text
SplitEnterLoop ==
    /\ split_pc = "call"
    /\ Len(text) > max_chunk_size
    /\ chunks' = <<>>
    /\ remaining_text' = text
    /\ split_pc' = "loop"
    /\ UNCHANGED <<text, max_chunk_size, chunk_end>>
    /\ UNCHANGED <<jobVars, labelVars, duoVars>>

\* the while test fails: remaining_text is empty
SplitLoopExit ==
    /\ split_pc = "loop"
    /\ remaining_text = <<>>
    /\ split_pc' = "done"
    /\ UNCHANGED <<text, max_chunk_size, remaining_text, chunks, chunk_end>>
    /\ UNCHANGED <<jobVars, labelVars, duoVars>>

\* the remaining text fits: append it and break
SplitLastChunk ==
    /\ split_pc = "loop"
    /\ remaining_text # <<>>
    /\ Len(remaining_text) <= max_chunk_size
    /\ chunks' = Append(chunks, remaining_text)
    /\ split_pc' = "done"
    /\ UNCHANGED <<text, max_chunk_size, remaining_text, chunk_end>>
    /\ UNCHANGED <<jobVars, labelVars, duoVars>>

\* one pass that cuts a chunk off the remaining text
SplitCut ==
    /\ split_pc = "loop"
    /\ Len(remaining_text) > max_chunk_size
    /\ chunk_end' = ChunkEnd(remaining_text, max_chunk_size)
    /\ chunks' = Append(chunks, CutChunk(remaining_text, chunk_end'))
    /\ remaining_text' = RestAfterCut(remaining_text, chunk_end')
    /\ UNCHANGED <<text, max_chunk_size, split_pc>>
    /\ UNCHANGED <<jobVars, labelVars, duoVars>>

SplitNext ==
    \/ SplitReturnWhole
    \/ SplitEnterLoop
    \/ SplitLoopExit
    \/ SplitLastChunk
    \/ SplitCut

SplitSpec == SplitInit /\ [][SplitNext]_vars

\* the chunker on texts with all three terminators, for the two largest
\* sizes: there the window of each cut rule holds several positions
CutInit ==
    /\ \/ /\ text \in SeqsUpTo(CutAlphabet, CutLen)
          /\ max_chunk_size \in (CutSize - 1)..CutSize
       \/ /\ text \in WideTexts
          /\ max_chunk_size = WideSize
    /\ remaining_text = <<>>
    /\ chunks = <<>>
    /\ split_pc = "call"
    /\ chunk_end = -1
    /\ JobIdle
    /\ LabelIdle
    /\ DuoIdle

CutSpec == CutInit /\ [][SplitNext]_vars


(***************************************************************************)
(* The pipelines, one request at a time.  The status channel (reply_text,  *)
(* edit_message_text) is taken to deliver every status; the providers and  *)
(* the delivery of audio (reply_voice, reply_audio) may fail.              *)
(***************************************************************************)
ChunkerIdle ==
    /\ text = <<>>
    /\ max_chunk_size = MAX_CHUNK_SIZE
    /\ remaining_text = <<>>
    /\ chunks = <<>>
    /\ split_pc = "idle"
    /\ chunk_end = -1

Init ==
    /\ ChunkerIdle
    /\ LabelIdle
    /\ DuoIdle
    /\ azure_cfg \in AzureCfgs
    /\ \E st \in SettingsStates : user_data = st[1] /\ user_settings = st[2]
    /\ job_pc = "idle"
    /\ flow = "none"
    /\ job_text = <<>>
    /\ text_chunks = <<>>
    /\ part = 0
    /\ audio_content = None
    /\ error_message = NoError
    /\ raised = FALSE
    /\ sdk_result = [audio |-> None, error |-> NoError]
    /\ rest_result = [audio |-> None, error |-> NoError]
    /\ statuses = <<>>
    /\ attempts = <<>>
    /\ calls = <<>>
    /\ requests = <<>>
    /\ results = <<>>
    /\ live_files = {}
    /\ split_calls = 0

\* the input t arrives on flow f; before is what the handler sent before
\* the length test.  Too long: one report and return.  Otherwise the text
\* is split and the loop over the chunks starts.
Accept(f, t, before) ==
    /\ job_pc = "idle"
    /\ flow' = f
    /\ job_text' = t
    /\ IF TooLong(t)
       THEN /\ statuses' = statuses \o before \o <<Status("too_long", 0)>>
            /\ job_pc' = "rejected"
            /\ UNCHANGED <<text_chunks, part, split_calls>>
       ELSE LET cs == SplitTextIntoChunks(t, MAX_CHUNK_SIZE)
            IN  /\ text_chunks' = cs
                /\ split_calls' = split_calls + 1
                /\ statuses' = statuses \o before \o EntryStatuses(f, Len(cs))
                /\ part' = 1
                /\ job_pc' = "chunk"
    /\ LET ensured == EnsureUserSettings(user_settings, user_data)
       IN  /\ user_settings' = ensured.stored
           /\ user_data' = ensured.data
    /\ UNCHANGED <<azure_cfg, audio_content, error_message, raised,
                   sdk_result, rest_result, attempts, calls, requests, results,
                   live_files>>
    /\ UNCHANGED <<splitVars, labelVars, duoVars>>

\* handle_text, up to the first chunk of process_text_to_speech
HandleText == \E t \in JobTexts : Accept("text", t, <<>>)

\* handle_document for a PDF or TXT file, up to the first chunk
HandleDocument ==
    \E t \in JobTexts : Accept("document", t, <<Status("processing_file", 0)>>)

\* callback_handler for "epub_<key>" with a known chapter, up to the first
\* chunk
EpubChapterSelected == \E t \in JobTexts : Accept("epub", t, <<>>)

Total == Len(text_chunks)

Attempt(backend, voice) ==
    [part |-> part, backend |-> backend, text |-> text_chunks[part],
     voice |-> voice]

Call(fn, voice) == [fn |-> fn, text |-> text_chunks[part], voice |-> voice]

\* chunk i with the Eleven Labs backend: the progress status and the call
SynthesizeElevenLabs ==
    /\ job_pc = "chunk"
    /\ user_data.tts_service = TTS_SERVICE_ELEVENLABS
    /\ \E env \in ElevenOutcomes :
          LET r == ElevenLabsTextToSpeech(env)
          IN  /\ audio_content' = r.audio
              /\ raised' = r.raises
    /\ error_message' = NoError
    /\ statuses' = statuses \o ChunkIntro(flow, part, Total)
    /\ attempts' = Append(attempts, Attempt(TTS_SERVICE_ELEVENLABS, user_data.voice_id))
    /\ calls' = <<>>
    /\ requests' = <<"elevenlabs">>
    /\ job_pc' = "synth_done"
    /\ UNCHANGED <<azure_cfg, user_data, user_settings, flow, job_text, text_chunks, part,
                   results, live_files, split_calls>>
    /\ sdk_result' = [audio |-> None, error |-> NoError]
    /\ rest_result' = [audio |-> None, error |-> NoError]
    /\ UNCHANGED <<splitVars, labelVars, duoVars>>

\* chunk i with the Azure backend: the progress status, the call of
\* azure_text_to_speech and its credential test
AzureTextToSpeechEntry ==
    /\ job_pc = "chunk"
    /\ user_data.tts_service # TTS_SERVICE_ELEVENLABS
    /\ statuses' = statuses \o ChunkIntro(flow, part, Total)
    /\ attempts' = Append(attempts, Attempt(TTS_SERVICE_AZURE, user_data.azure_voice_name))
    /\ calls' = <<>>
    /\ requests' = <<>>
    /\ audio_content' = None
    /\ raised' = FALSE
    /\ sdk_result' = [audio |-> None, error |-> NoError]
    /\ rest_result' = [audio |-> None, error |-> NoError]
    /\ IF KeyMissing(azure_cfg.key)
       THEN /\ error_message' = Msg("Azure Speech key not properly configured")
            /\ job_pc' = "synth_done"
       ELSE /\ error_message' = NoError
            /\ job_pc' = "az_sdk"
    /\ UNCHANGED <<azure_cfg, user_data, user_settings, flow, job_text, text_chunks, part,
                   results, live_files, split_calls>>
    /\ UNCHANGED <<splitVars, labelVars, duoVars>>

\* azure_text_to_speech: the SDK attempt; with audio it returns
AzureSdkAttempt ==
    /\ job_pc = "az_sdk"
    /\ \E env \in SdkOutcomes :
          LET r == AzureSdkSynthesis(azure_cfg, env)
          IN  /\ sdk_result' = [audio |-> r.audio, error |-> r.error]
              /\ requests' = IF r.request
                             THEN Append(requests, "azure_sdk")
                             ELSE requests
              /\ live_files' = IF r.file_left
                               THEN live_files \cup {SdkOutputFile(part)}
                               ELSE live_files
              /\ IF SdkGaveAudio(r.audio)
                 THEN /\ audio_content' = r.audio
                      /\ error_message' = NoError
                      /\ job_pc' = "synth_done"
                 ELSE /\ UNCHANGED <<audio_content, error_message>>
                      /\ job_pc' = "az_rest"
    /\ calls' = Append(calls, Call("azure_sdk_synthesis",
                                   EffectiveVoice(user_data.azure_voice_name)))
    /\ UNCHANGED <<azure_cfg, user_data, user_settings, flow, job_text, text_chunks, part,
                   raised, rest_result, statuses, attempts, results, split_calls>>
    /\ UNCHANGED <<splitVars, labelVars, duoVars>>

\* azure_text_to_speech: the REST attempt, whose result is returned
AzureRestAttempt ==
    /\ job_pc = "az_rest"
    /\ \E env \in RestOutcomes :
          LET r == AzureRestSynthesis(azure_cfg, env)
          IN  /\ rest_result' = [audio |-> r.audio, error |-> r.error]
              /\ audio_content' = r.audio
              /\ error_message' = FallbackError(sdk_result.error, r.error)
              /\ requests' = IF r.request
                             THEN Append(requests, "azure_rest")
                             ELSE requests
    /\ calls' = Append(calls, Call("azure_rest_synthesis",
                                   EffectiveVoice(user_data.azure_voice_name)))
    /\ job_pc' = "synth_done"
    /\ UNCHANGED <<azure_cfg, user_data, user_settings, flow, job_text, text_chunks, part,
                   raised, sdk_result, statuses, attempts, results, live_files,
                   split_calls>>
    /\ UNCHANGED <<splitVars, labelVars, duoVars>>

\* a mutant of FinalStatuses: no completion status after a failed last chunk
FinalStatusesAfterSuccess(total, outcome) ==
    IF total > 1 /\ outcome # "failed" THEN <<Status("completed", 0)>> ELSE <<>>

\* the status sent after the loop over the chunks of a request of several
\* parts, whatever the outcome of the last chunk; a request of one part
\* has none
FinalStatuses(total, outcome) ==
    IF total > 1 THEN <<Status("completed", 0)>> ELSE <<>>

\* the end of chunk i: its outcome, the failure status if any, and the
\* next pass of the loop or, after the last chunk, the completion status
\* of a multi-part request
EndChunk(report, outcome) ==
    LET next == IF outcome = "failed" THEN AfterFailure(part, Total) ELSE part + 1
    IN  /\ results' = Append(results, [part |-> part, outcome |-> outcome,
                                       suffix |-> PartFileSuffix(flow, part, Total)])
        /\ audio_content' = None
        /\ error_message' = NoError
        /\ raised' = FALSE
        /\ IF next > Total
           THEN /\ statuses' = statuses \o report \o FinalStatuses(Total, outcome)
                /\ job_pc' = "done"
                /\ part' = part
           ELSE /\ statuses' = statuses \o report
                /\ job_pc' = "chunk"
                /\ part' = next

\* the except clause around a chunk, for an exception of the backend
ReportException ==
    /\ job_pc = "synth_done"
    /\ raised
    /\ EndChunk(<<Status("exception_error", part)>>, "failed")
    /\ UNCHANGED <<azure_cfg, user_data, user_settings, flow, job_text, text_chunks,
                   sdk_result, rest_result, attempts, calls, requests,
                   live_files, split_calls>>
    /\ UNCHANGED <<splitVars, labelVars, duoVars>>

\* "if not audio_content" in the Azure branch: the error is reported
ReportAzureFailure ==
    /\ job_pc = "synth_done"
    /\ ~raised
    /\ user_data.tts_service # TTS_SERVICE_ELEVENLABS
    /\ ~Truthy(audio_content)
    /\ EndChunk(<<StatusWithError("azure_error", part, error_message)>>, "failed")
    /\ UNCHANGED <<azure_cfg, user_data, user_settings, flow, job_text, text_chunks,
                   sdk_result, rest_result, attempts, calls, requests,
                   live_files, split_calls>>
    /\ UNCHANGED <<splitVars, labelVars, duoVars>>

\* "if not audio_content" after the Eleven Labs branch
ReportNoAudio ==
    /\ job_pc = "synth_done"
    /\ ~raised
    /\ user_data.tts_service = TTS_SERVICE_ELEVENLABS
    /\ ~Truthy(audio_content)
    /\ EndChunk(<<Status("failed", part)>>, "failed")
    /\ UNCHANGED <<azure_cfg, user_data, user_settings, flow, job_text, text_chunks,
                   sdk_result, rest_result, attempts, calls, requests,
                   live_files, split_calls>>
    /\ UNCHANGED <<splitVars, labelVars, duoVars>>

\* the audio is written to a temporary file (delete=False)
WriteTempAudio ==
    /\ job_pc = "synth_done"
    /\ ~raised
    /\ Truthy(audio_content)
    /\ live_files' = live_files \cup {TempAudioFile(part)}
    /\ job_pc' = "deliver"
    /\ UNCHANGED <<azure_cfg, user_data, user_settings, flow, job_text, text_chunks, part,
                   audio_content, error_message, raised, sdk_result, rest_result,
                   statuses, attempts, calls, requests, results, split_calls>>
    /\ UNCHANGED <<splitVars, labelVars, duoVars>>

\* reply_voice, reply_audio if voice messages are refused, os.unlink; an
\* error of the transport ends in the except clause
Deliver ==
    /\ job_pc = "deliver"
    /\ \E v \in VoiceOutcomes, a \in AudioOutcomes :
          LET d == Delivery(flow, v, a)
          IN  /\ EndChunk(IF d.report = "" THEN <<>>
                          ELSE <<Status(d.report, part)>>, d.outcome)
              /\ live_files' = IF d.unlinked
                               THEN live_files \ {TempAudioFile(part)}
                               ELSE live_files
    /\ UNCHANGED <<azure_cfg, user_data, user_settings, flow, job_text, text_chunks,
                   sdk_result, rest_result, attempts, calls, requests, split_calls>>
    /\ UNCHANGED <<splitVars, labelVars, duoVars>>

Next ==
    \/ HandleText
    \/ HandleDocument
    \/ EpubChapterSelected
    \/ SynthesizeElevenLabs
    \/ AzureTextToSpeechEntry
    \/ AzureSdkAttempt
    \/ AzureRestAttempt
    \/ ReportException
    \/ ReportAzureFailure
    \/ ReportNoAudio
    \/ WriteTempAudio
    \/ Deliver

Spec == Init /\ [][Next]_vars

\* a step of the request being processed
RequestStep ==
    \/ SynthesizeElevenLabs
    \/ AzureTextToSpeechEntry
    \/ AzureSdkAttempt
    \/ AzureRestAttempt
    \/ ReportException
    \/ ReportAzureFailure
    \/ ReportNoAudio
    \/ WriteTempAudio
    \/ Deliver

\* the handler of an accepted request is run to its end: every call of a
\* backend and of the transport returns or raises
LiveSpec == Spec /\ WF_vars(RequestStep)

(***************************************************************************)
(* The names of the delivered parts.                                       *)
(***************************************************************************)
Letters ==
    {"a", "b", "c", "d", "e", "f", "g", "h", "i", "j", "k", "l", "m", "n",
     "o", "p", "q", "r", "s", "t", "u", "v", "w", "x", "y", "z",
     "A", "B", "C", "D", "E", "F", "G", "H", "I", "J", "K", "L", "M", "N",
     "O", "P", "Q", "R", "S", "T", "U", "V", "W", "X", "Y", "Z"}

\* c.isalnum(), for the characters of the names
IsAlnum(c) == c \in Letters \/ \E d \in 1..10 : Digits[d] = c

\* c.isalnum() or c in ' _-.'
KeepChar(c) == IsAlnum(c) \/ c \in {" ", "_", "-", "."}

\* ''.join(c for c in s if c.isalnum() or c in ' _-.')
Sanitize(s) == SelectSeq(s, KeepChar)

Ellipsis == <<".", ".", ".">>

\* a mutant of Truncate: as many characters are kept as the limit allows
TruncateKeepsLimit(s, limit, keep) ==
    IF Len(s) > limit THEN SliceTo(s, limit) \o Ellipsis ELSE s

\* if len(s) > limit: s = s[:keep] + "..."
Truncate(s, limit, keep) ==
    IF Len(s) > limit THEN SliceTo(s, keep) \o Ellipsis ELSE s

\* callback_handler: base_file_name before the length test
EpubUncutName(book_title, chapter_title, original_base_name) ==
    LET sanitized_chapter_title == Sanitize(chapter_title)
        sanitized_book_title    == Sanitize(book_title)
    IN  IF sanitized_book_title # <<>>
        THEN sanitized_book_title \o <<" ", "-", " ">> \o sanitized_chapter_title
        ELSE IF original_base_name # <<>>
        THEN original_base_name \o <<" ", "-", " ">> \o sanitized_chapter_title
        ELSE sanitized_chapter_title

\* callback_handler: base_file_name
EpubBaseFileName(book_title, chapter_title, original_base_name) ==
    Truncate(EpubUncutName(book_title, chapter_title, original_base_name), 36, 35)

\* callback_handler: part_title of part i
PartTitle(chapter_title, i, total) ==
    chapter_title \o <<" ", "(", "P", "a", "r", "t", " ">> \o DecimalStr(i)
        \o <<"/">> \o DecimalStr(total) \o <<")">>

\* process_text_chunk: output_file_name
ChunkOutputFileName(title, file_name) ==
    IF file_name = <<>> THEN Truncate(Sanitize(title), 64, 61) ELSE file_name

\* the caption of part i of an EPUB chapter
EpubLabel(n, i) ==
    LET base_file_name ==
            EpubBaseFileName(n.book_title, n.chapter_title, n.base_name)
    IN  IF n.total_chunks = 1
        THEN ChunkOutputFileName(n.chapter_title, base_file_name)
        ELSE ChunkOutputFileName(PartTitle(n.chapter_title, i, n.total_chunks),
                                 base_file_name \o <<"-">> \o DecimalStr(i))

Speech == <<"s", "p", "e", "e", "c", "h">>

\* process_text_to_speech: output_file_name (one chunk) or part_file_name
\* (part i of several); file_name_base is empty for a text message
TextToSpeechLabel(file_name_base, i, total) ==
    IF total = 1
    THEN IF file_name_base = <<>> THEN Speech
         ELSE Truncate(Sanitize(file_name_base), 64, 61)
    ELSE IF file_name_base = <<>> THEN Speech \o PartSuffix(i, total)
         ELSE Truncate(Sanitize(file_name_base), 50, 47) \o PartSuffix(i, total)

\* the first n characters of the pattern p repeated
Repeat(p, n) == [k \in 1..n |-> p[((k - 1) % Len(p)) + 1]]

\* titles and file names: letters only, letters mixed with characters that
\* are kept and characters that are dropped, and dropped characters only
NamePatterns == {<<"a">>, <<"a", "@", " ", "7", "/", ".", "_", "-">>, <<"@">>}

\* their lengths: short ones, those around each length test, the longest
NameLens == {0, 1} \cup 34..38 \cup 48..51 \cup 62..65 \cup {MaxNameLen}

Names == {Repeat(p, n) : p \in NamePatterns, n \in NameLens}

ChapterTitles ==
    {<<"C", "h", "1">>, <<"C", "h", ":", " ", "1", "?">>, <<"?", "!">>,
     Repeat(<<"a", " ">>, 40)}

\* the number of parts of a text of MAX_TEXT_LENGTH (204800) characters made
\* of words of max_chunk_size // 2 (2000) letters with one space between
\* them: every pass cuts at the only space of its window and consumes 2001
\* characters, until at most max_chunk_size (4000) characters remain
MaxParts == ((204800 - 4000) \div (4000 \div 2 + 1)) + 2

\* what a request is named from: nothing for a text message, the file base
\* name for a document, the titles and the base name of the uploaded file
\* for an EPUB chapter; the number of parts is small, or what the longest
\* accepted text can give
Namings ==
    [flow : {"text"}, book_title : {<<>>}, chapter_title : {<<>>},
     base_name : {<<>>}, total_chunks : 1..MaxTotal]
    \cup [flow : {"document"}, book_title : {<<>>}, chapter_title : {<<>>},
          base_name : Names \ {<<>>}, total_chunks : 1..MaxTotal]
    \cup [flow : {"epub"}, book_title : Names, chapter_title : ChapterTitles,
          base_name : Names \ {<<>>}, total_chunks : 1..MaxTotal]
    \cup [flow : {"text"}, book_title : {<<>>}, chapter_title : {<<>>},
          base_name : {<<>>}, total_chunks : {MaxParts}]
    \cup [flow : {"document"}, book_title : {<<>>}, chapter_title : {<<>>},
          base_name : Names \ {<<>>}, total_chunks : {MaxParts}]
    \cup [flow : {"epub"}, book_title : Names, chapter_title : {<<"C", "h", "1">>},
          base_name : {<<"a">>}, total_chunks : {MaxParts}]

LabelInit ==
    /\ naming \in Namings
    /\ labels = <<>>
    /\ ChunkerIdle
    /\ JobIdle
    /\ DuoIdle

\* the next part of the request is delivered under its caption
NamePart(f, label) ==
    /\ naming.flow = f
    /\ Len(labels) < naming.total_chunks
    /\ labels' = Append(labels, label)
    /\ UNCHANGED <<naming, splitVars, jobVars, duoVars>>

\* process_text_to_speech called by handle_text
NameTextPart ==
    NamePart("text", TextToSpeechLabel(<<>>, Len(labels) + 1, naming.total_chunks))

\* process_text_to_speech called by handle_document with base_name
NameDocumentPart ==
    NamePart("document",
             TextToSpeechLabel(naming.base_name, Len(labels) + 1, naming.total_chunks))

\* callback_handler and process_text_chunk
NameEpubPart == NamePart("epub", EpubLabel(naming, Len(labels) + 1))

LabelNext ==
    \/ NameTextPart
    \/ NameDocumentPart
    \/ NameEpubPart

LabelSpec == LabelInit /\ [][LabelNext]_vars

(***************************************************************************)
(* Two users.  The process handles one update after the other; here the   *)
(* requests of the two users may interleave freely at the chunks, which    *)
(* includes every order in which the process can serve them.              *)
(***************************************************************************)
\* the text each user sends is made of the user's own letter
DuoLetter == [u \in Users |-> IF u = "u1" THEN "a" ELSE "b"]

\* a text message has no file base name, a document has one
DuoBase(u, document) == IF document THEN <<"d", "@", DuoLetter[u]>> ELSE <<>>

\* a mutant of UserDataOf: one dictionary serves all the users
UserDataShared(u) == duo_data[CHOOSE v \in Users : TRUE]

\* context.user_data in a handler that serves an update of user u
UserDataOf(u) == duo_data[u]

DuoInit ==
    /\ \E st \in [Users -> SettingsStates] :
          /\ duo_data = [u \in Users |-> st[u][1]]
          /\ duo_store = [u \in Users |-> st[u][2]]
    /\ \E n \in [Users -> 1..MAX_TEXT_LENGTH], document \in [Users -> BOOLEAN] :
          duo_jobs = [u \in Users |->
                         [pc |-> "idle", text |-> Repeat(<<DuoLetter[u]>>, n[u]),
                          file_name_base |-> DuoBase(u, document[u]),
                          text_chunks |-> <<>>, tts_service |-> None,
                          calls |-> <<>>, labels |-> <<>>]]
    /\ ChunkerIdle
    /\ JobIdle
    /\ LabelIdle

\* callback_handler for "service_<service>", sent by user u between requests
SelectService(u) ==
    /\ duo_jobs[u].pc = "idle"
    /\ \E service \in {TTS_SERVICE_ELEVENLABS, TTS_SERVICE_AZURE} :
          LET ensured == EnsureUserSettings(duo_store[u], UserDataOf(u))
              data    == [ensured.data EXCEPT !.tts_service = service]
          IN  /\ duo_data' = [duo_data EXCEPT ![u] = data]
              /\ duo_store' = [duo_store EXCEPT ![u] = {data}]
    /\ UNCHANGED <<duo_jobs, splitVars, jobVars, labelVars>>

\* handle_text or handle_document of user u, up to the first chunk of
\* process_text_to_speech
DuoStart(u) ==
    /\ duo_jobs[u].pc = "idle"
    /\ LET ensured == EnsureUserSettings(duo_store[u], UserDataOf(u))
           cs      == SplitTextIntoChunks(duo_jobs[u].text, MAX_CHUNK_SIZE)
       IN  /\ duo_data' = [duo_data EXCEPT ![u] = ensured.data]
           /\ duo_store' = [duo_store EXCEPT ![u] = ensured.stored]
           /\ duo_jobs' = [duo_jobs EXCEPT ![u].pc = "loop",
                                           ![u].text_chunks = cs,
                                           ![u].tts_service = ensured.data.tts_service]
    /\ UNCHANGED <<splitVars, jobVars, labelVars>>

\* the next chunk of user u's request: the backend call with the voice
\* read from user_data, and the caption of the part
DuoChunk(u) ==
    /\ duo_jobs[u].pc = "loop"
    /\ LET job   == duo_jobs[u]
           i     == Len(job.calls) + 1
           total == Len(job.text_chunks)
           voice == IF job.tts_service = TTS_SERVICE_ELEVENLABS
                    THEN UserDataOf(u).voice_id
                    ELSE UserDataOf(u).azure_voice_name
           call  == [part |-> i, backend |-> job.tts_service, voice |-> voice,
                     text |-> job.text_chunks[i]]
       IN  duo_jobs' = [duo_jobs EXCEPT
                           ![u].calls = Append(job.calls, call),
                           ![u].labels = Append(job.labels,
                               TextToSpeechLabel(job.file_name_base, i, total)),
                           ![u].pc = IF i = total THEN "done" ELSE "loop"]
    /\ UNCHANGED <<duo_store, duo_data, splitVars, jobVars, labelVars>>

DuoNext ==
    \E u \in Users :
        \/ SelectService(u)
        \/ DuoStart(u)
        \/ DuoChunk(u)

DuoSpec == DuoInit /\ [][DuoNext]_vars

(***************************************************************************)
(* Claims about the chunker, checked under SplitSpec.                      *)
(***************************************************************************)
SplitReturned == split_pc = "done"

SplitLooped == SplitReturned /\ Len(text) > max_chunk_size

HasNonSpace(s) == \E j \in 1..Len(s) : ~IsSpace(s[j])

AllSpace(s) == \A j \in 1..Len(s) : IsSpace(s[j])

IsPrefixOf(p, s) == Len(p) <= Len(s) /\ SubSeq(s, 1, Len(p)) = p

\* t = w0 c1 w1 ... cn wn for the chunks cs = <<c1, ..., cn>> and
\* whitespace-only strings w0 .. wn
RECURSIVE Reconstructs(_, _)
Reconstructs(t, cs) ==
    IF cs = <<>> THEN AllSpace(t)
    ELSE \E k \in 0..Len(t) :
            /\ AllSpace(SliceTo(t, k))
            /\ IsPrefixOf(Head(cs), SliceFrom(t, k))
            /\ Reconstructs(SliceFrom(t, k + Len(Head(cs))), Tail(cs))

\* C1: for a text longer than max_chunk_size, every returned chunk, the
\* last one included, is at most max_chunk_size characters long.
C1_ChunkBound ==
    SplitLooped => \A k \in 1..Len(chunks) : Len(chunks[k]) <= max_chunk_size

\* C1 witness: a text longer than max_chunk_size was split into several
\* chunks, one of them as long as max_chunk_size allows (a hard cut).
C1_Witness ==
    /\ SplitLooped
    /\ Len(chunks) >= 2
    /\ max_chunk_size >= 3
    /\ \E k \in 1..Len(chunks) : Len(chunks[k]) = max_chunk_size

\* C3 (as claimed): for a text longer than max_chunk_size, every returned
\* chunk holds at least one non-whitespace character.
C3_NoBlankChunk ==
    SplitLooped => \A k \in 1..Len(chunks) : HasNonSpace(chunks[k])

\* C4: the returned chunks, in order and separated by whitespace only,
\* make up the text: no non-whitespace character is lost, duplicated or
\* reordered.
C4_Reconstruction == SplitReturned => Reconstructs(text, chunks)

\* C4 witness: a split into several chunks that dropped whitespace at a
\* cut point.
C4_Witness ==
    /\ SplitLooped
    /\ Len(chunks) >= 2
    /\ \E k \in 1..Len(text) : ~IsSpace(text[k])
    /\ Len(chunks[1]) + Len(chunks[2]) < Len(text)
    /\ HasNonSpace(chunks[1]) /\ HasNonSpace(chunks[2])

\* C5: every pass of the loop either returns, which it does exactly when
\* the remaining text is empty or fits in max_chunk_size, or leaves a
\* strictly shorter remaining text; so the loop terminates.
C5_LoopShrinks ==
    [][split_pc = "loop" =>
         IF remaining_text = <<>> \/ Len(remaining_text) <= max_chunk_size
         THEN split_pc' = "done"
         ELSE /\ split_pc' = "loop"
              /\ Len(remaining_text') < Len(remaining_text)]_vars

\* C5 witness: the loop has cut two chunks and the text left over is not
\* empty.
C5_Witness ==
    /\ split_pc = "loop"
    /\ Len(chunks) >= 2
    /\ remaining_text # <<>>

SplitShort == SplitReturned /\ Len(text) <= max_chunk_size

\* C11 (as claimed): a text of at most max_chunk_size characters, the empty
\* text and texts with leading or trailing whitespace included, comes back
\* as exactly one chunk, equal to the text with leading and trailing
\* whitespace trimmed.
C11_SingleChunkTrimmed == SplitShort => chunks = <<Strip(text)>>

\* C11 (amended): a text of at most max_chunk_size characters comes back as
\* exactly one chunk, equal to the text as it is: leading and trailing
\* whitespace is kept, and the empty text gives one empty chunk.
C11_SingleChunkAsIs == SplitShort => chunks = <<text>>

\* C11 witness: a short text with a letter between leading and trailing
\* whitespace has been returned.
C11_Witness ==
    /\ SplitShort
    /\ Len(text) >= 3
    /\ IsSpace(text[1]) /\ IsSpace(text[Len(text)])
    /\ HasNonSpace(text)
    /\ Len(chunks) = 1

(***************************************************************************)
(* Claims about the cut rules, checked under CutSpec.  Positions are       *)
(* 0-based positions in the remaining text, max_size/2 is max_size // 2.   *)
(***************************************************************************)
\* a pass of the loop that has to cut is about to run
AtCut == split_pc = "loop" /\ Len(remaining_text) > max_chunk_size

\* the first cut has just been made (of the whole text)
FirstCutMade == split_pc = "loop" /\ Len(chunks) = 1

\* r has a paragraph break ("\n\n") at position p
ParagraphBreakAt(r, p) ==
    p + 2 <= Len(r) /\ r[p + 1] = "\n" /\ r[p + 2] = "\n"

\* r has a sentence terminator at position p, followed by a space or newline
TerminatorAt(r, p) ==
    p + 2 <= Len(r) /\ r[p + 1] \in {".", "?", "!"} /\ r[p + 2] \in {" ", "\n"}

\* the paragraph breaks that lie within the first m characters of r
ParagraphBreaks(r, m) == {p \in 0..(m - 2) : ParagraphBreakAt(r, p)}

\* the last of them is at or beyond the middle
ParagraphQualifies(r, m) == \E p \in ParagraphBreaks(r, m) : p >= m \div 2

\* the terminators of r in positions lo..hi
TerminatorsIn(r, lo, hi) == {p \in lo..hi : TerminatorAt(r, p)}

\* the terminators that, with the whitespace after them, lie within the
\* first m - 1 characters of r: the window of the sentence scan
Terminators(r, m) == TerminatorsIn(r, 0, m - 3)

\* the pass cuts r at position e
CutsAt(r, e) ==
    /\ chunk_end' = e
    /\ chunks' = Append(chunks, Strip(SliceTo(r, e)))
    /\ remaining_text' = Strip(SliceFrom(r, e))

\* the positions of the first m characters of r, from the middle on, that
\* hold a space: the candidates of the word cut
WordBoundaries(r, m) == {p \in (m \div 2)..(m - 1) : r[p + 1] = " "}

\* C19: when the remaining text is longer than max_size, the cut is made by
\* the paragraph rule exactly when the last "\n\n" lying within the first
\* max_size characters is at position max_size/2 (rounded down) or beyond.
\* Then the cut is right after that break, wherever the sentence and word
\* boundaries of the window are.  Otherwise the cut is one the other rules
\* make: right after the whitespace that follows a terminator, at a space of
\* the second half of the window, or at max_size.  No cut is ever made
\* before the middle, so a break that ends before it is never the cut point.
C19_ParagraphCut ==
    [][AtCut =>
         LET r == remaining_text
             m == max_chunk_size
         IN  /\ ParagraphQualifies(r, m) =>
                    CutsAt(r, SetMax(ParagraphBreaks(r, m)) + 2)
             /\ ~ParagraphQualifies(r, m) =>
                    \/ \E p \in Terminators(r, m) : chunk_end' = p + 2
                    \/ chunk_end' \in WordBoundaries(r, m)
                    \/ chunk_end' = m
             /\ chunk_end' >= m \div 2]_vars

\* C19 witness: the first cut was made right after a paragraph break
\* although the window holds a sentence boundary to the right of it.
C19_Witness ==
    /\ FirstCutMade
    /\ ParagraphQualifies(text, max_chunk_size)
    /\ LET last == SetMax(ParagraphBreaks(text, max_chunk_size))
       IN  /\ chunk_end = last + 2
           /\ chunks[1] = SliceTo(text, last)
           /\ \E p \in Terminators(text, max_chunk_size) : p > last

\* the word cut, or the hard cut where the second half of the window has no
\* space
WordOrHardCut(r, m) ==
    IF WordBoundaries(r, m) = {} THEN m ELSE SetMax(WordBoundaries(r, m))

\* the pass leaves the chunk and the remaining text of a cut of r at e
CutsLike(r, e) ==
    /\ chunks' = Append(chunks, Strip(SliceTo(r, e)))
    /\ remaining_text' = Strip(SliceFrom(r, e))

\* C20 (as claimed): when the remaining text is longer than max_size and no
\* paragraph break qualifies, the terminators considered are those followed
\* by a space or newline at positions up to max_size - 1; if one of them is
\* at position max_size/2 or beyond, the cut is right after the whitespace
\* that follows the rightmost one; otherwise no terminator is used and the
\* cut is the word cut or the hard cut.  Only the resulting chunk and
\* remaining text are compared.
C20_SentenceWindowClaimed ==
    [][(AtCut /\ ~ParagraphQualifies(remaining_text, max_chunk_size)) =>
         LET r == remaining_text
             m == max_chunk_size
             T == TerminatorsIn(r, 0, m - 1)
         IN  IF \E p \in T : p >= m \div 2
             THEN CutsLike(r, SetMax(T) + 2)
             ELSE CutsLike(r, WordOrHardCut(r, m))]_vars

\* C20 (amended): when the remaining text is longer than max_size and no
\* paragraph break qualifies, the terminators considered are those followed
\* by a space or newline at positions up to max_size - 3 (terminator and
\* whitespace within the first max_size - 1 characters); if the rightmost of
\* them is at position max_size/2 - 1 or beyond (the whitespace after it at
\* max_size/2 or beyond), the cut is right after that whitespace; otherwise
\* no terminator is used and the cut is the word cut or the hard cut.
C20_SentenceWindow ==
    [][(AtCut /\ ~ParagraphQualifies(remaining_text, max_chunk_size)) =>
         LET r == remaining_text
             m == max_chunk_size
             T == Terminators(r, m)
         IN  IF \E p \in T : p >= m \div 2 - 1
             THEN CutsAt(r, SetMax(T) + 2)
             ELSE CutsAt(r, WordOrHardCut(r, m))]_vars

\* C20 witness: the first cut was made after a terminator at position
\* max_size/2 - 1, the rightmost of the window, while the text has another
\* terminator followed by whitespace at position max_size - 2 or
\* max_size - 1.
C20_Witness ==
    /\ FirstCutMade
    /\ ~ParagraphQualifies(text, max_chunk_size)
    /\ Terminators(text, max_chunk_size) # {}
    /\ LET last == SetMax(Terminators(text, max_chunk_size))
       IN  /\ last = max_chunk_size \div 2 - 1
           /\ chunk_end = last + 2
           /\ chunks[1] = SliceTo(text, last + 1)
    /\ TerminatorsIn(text, max_chunk_size - 2, max_chunk_size - 1) # {}

\* the sentence rule finds a terminator it accepts
SentenceQualifies(r, m) == \E p \in Terminators(r, m) : p >= m \div 2 - 1

\* C21 (as claimed): when the remaining text is longer than max_size, no
\* paragraph break qualifies and the text has no terminator followed by
\* whitespace from position max_size/2 - 1 to max_size - 1, the chunk and
\* the remaining text are those of a cut at the last space among the
\* characters max_size/2 .. max_size - 1 if there is one, and otherwise the
\* chunk is exactly the first max_size characters of the remaining text.
C21_WordOrHardCutClaimed ==
    [][(/\ AtCut
        /\ ~ParagraphQualifies(remaining_text, max_chunk_size)
        /\ TerminatorsIn(remaining_text, max_chunk_size \div 2 - 1,
                         max_chunk_size - 1) = {})
       => LET r == remaining_text
              m == max_chunk_size
          IN  IF WordBoundaries(r, m) # {}
              THEN CutsLike(r, SetMax(WordBoundaries(r, m)))
              ELSE chunks' = Append(chunks, SliceTo(r, m))]_vars

\* C21 (amended): when the remaining text is longer than max_size and
\* neither a paragraph break nor a sentence break qualifies, the cut is at
\* the last space among the characters max_size/2 .. max_size - 1 if there
\* is one, and otherwise at max_size; the chunk is the text before the cut
\* with leading and trailing whitespace removed, so after a hard cut it is
\* the first max_size characters trimmed.
C21_WordOrHardCut ==
    [][(/\ AtCut
        /\ ~ParagraphQualifies(remaining_text, max_chunk_size)
        /\ ~SentenceQualifies(remaining_text, max_chunk_size))
       => LET r == remaining_text
              m == max_chunk_size
          IN  IF WordBoundaries(r, m) # {}
              THEN /\ CutsAt(r, SetMax(WordBoundaries(r, m)))
                   /\ r[chunk_end' + 1] = " "
              ELSE /\ CutsAt(r, m)
                   /\ chunks'[Len(chunks')] = Strip(SliceTo(r, m))]_vars

\* C21 witness: the first cut was a hard cut, the second half of the window
\* having no space, and the chunk is shorter than max_size because the
\* first max_size characters end with a newline.
C21_Witness ==
    /\ FirstCutMade
    /\ ~ParagraphQualifies(text, max_chunk_size)
    /\ ~SentenceQualifies(text, max_chunk_size)
    /\ WordBoundaries(text, max_chunk_size) = {}
    /\ chunk_end = max_chunk_size
    /\ text[max_chunk_size] = "\n"
    /\ chunks[1] = Strip(SliceTo(text, max_chunk_size))
    /\ Len(chunks[1]) < max_chunk_size

\* C12: when the remaining text is longer than max_size, no paragraph break
\* qualifies and the window of the sentence scan holds a terminator followed
\* by whitespace at or beyond the middle, the cut is made after the
\* whitespace that follows the rightmost terminator of the window, whichever
\* of the six variants it is: the chunk ends with that terminator, the next
\* chunk starts with the text after the whitespace, and the cut is neither
\* the word cut nor the hard cut.
C12_SentenceCut ==
    [][(/\ AtCut
        /\ ~ParagraphQualifies(remaining_text, max_chunk_size)
        /\ \E p \in Terminators(remaining_text, max_chunk_size) :
              p >= max_chunk_size \div 2)
       => LET last == SetMax(Terminators(remaining_text, max_chunk_size))
              chunk == chunks'[Len(chunks')]
          IN  /\ CutsAt(remaining_text, last + 2)
              /\ chunk[Len(chunk)] = remaining_text[last + 1]
              /\ Len(chunk) <= last + 1]_vars

\* C12 witness: the first cut of a text whose window holds two terminators
\* of different variants was made after the right one, an exclamation mark.
C12_Witness ==
    /\ FirstCutMade
    /\ ~ParagraphQualifies(text, max_chunk_size)
    /\ \E p, q \in Terminators(text, max_chunk_size) :
          /\ p < q
          /\ q >= max_chunk_size \div 2
          /\ text[p + 1] # text[q + 1]
          /\ text[q + 1] = "!"
          /\ chunk_end = q + 2
          /\ chunks[1] = SliceTo(text, q + 1)

(***************************************************************************)
(* Claims about the names, checked under LabelSpec.                        *)
(***************************************************************************)
EndsWith(s, t) == Len(s) >= Len(t) /\ SubSeq(s, Len(s) - Len(t) + 1, Len(s)) = t

\* the name a single part would get without any length test
UncutLabel(n) ==
    IF n.flow = "text" THEN Speech
    ELSE IF n.flow = "document" THEN Sanitize(n.base_name)
    ELSE EpubUncutName(n.book_title, n.chapter_title, n.base_name)

\* C13 (as claimed): every caption of a delivered part, in every flow and
\* for every total, holds only alphanumeric characters, spaces and the
\* characters '_', '-' and '.'.
C13_LabelsSanitized ==
    \A i \in 1..Len(labels) : \A k \in 1..Len(labels[i]) : KeepChar(labels[i][k])

\* the part suffix of the caption of part i: "-{i}" for an EPUB chapter,
\* "_part_{i}_of_{total}" for a text message or a document
LabelSuffix(n, i) ==
    IF n.flow = "epub" THEN <<"-">> \o DecimalStr(i)
    ELSE PartSuffix(i, n.total_chunks)

\* the caption of part i without its part suffix
LabelBase(n, i) == SliceTo(labels[i], Len(labels[i]) - Len(LabelSuffix(n, i)))

\* C22 (as claimed): in every request of several parts, whatever its flow,
\* the base name that the part suffix is appended to has at most 36
\* characters, the marker "..." included.
C22_BaseCutTo36 ==
    naming.total_chunks > 1 =>
        \A i \in 1..Len(labels) : Len(LabelBase(naming, i)) <= 36

\* C23 (as claimed): every caption of a request of several parts is at most
\* 64 characters long, for every part and every number of parts that a text
\* of at most MAX_TEXT_LENGTH characters gives at max_chunk_size 4000.
C23_MultiLabelBound ==
    naming.total_chunks > 1 =>
        \A i \in 1..Len(labels) : Len(labels[i]) <= 64

\* C14: the caption of a request of one part is at most 64 characters
\* long, whatever the book title, chapter title and file base name, and
\* when the name was cut the caption ends with the marker "...".
C14_SingleLabelBound ==
    (naming.total_chunks = 1 /\ Len(labels) = 1) =>
        /\ Len(labels[1]) <= 64
        /\ labels[1] # UncutLabel(naming) => EndsWith(labels[1], Ellipsis)

\* C14 witness: the chapter "Ch1" of a book whose title has 100 characters
\* was delivered in one part under a caption that was cut.
C14_Witness ==
    /\ naming.flow = "epub"
    /\ naming.total_chunks = 1
    /\ naming.book_title = Repeat(<<"a">>, 100)
    /\ naming.chapter_title = <<"C", "h", "1">>
    /\ Len(labels) = 1
    /\ labels[1] # UncutLabel(naming)

(***************************************************************************)
(* Claims about the pipelines and the Azure backend, checked under Spec.   *)
(***************************************************************************)
FailureKinds == {"azure_error", "failed", "send_failed", "exception_error"}

\* the number of failure statuses emitted for chunk k
FailureReports(k) ==
    Cardinality({j \in 1..Len(statuses) :
                    statuses[j].kind \in FailureKinds /\ statuses[j].part = k})

CountKind(kind) ==
    Cardinality({j \in 1..Len(statuses) : statuses[j].kind = kind})

Accepted == job_pc \notin {"idle", "rejected"}

UsesAzure == user_data.tts_service # TTS_SERVICE_ELEVENLABS

C6_LengthCeiling ==
    job_pc # "idle" =>
        IF Len(job_text) > MAX_TEXT_LENGTH
        THEN /\ job_pc = "rejected"
             /\ CountKind("too_long") = 1
             /\ split_calls = 0
             /\ text_chunks = <<>>
             /\ attempts = <<>> /\ calls = <<>> /\ requests = <<>>
        ELSE /\ job_pc # "rejected"
             /\ CountKind("too_long") = 0
             /\ split_calls = 1

\* C6 witness: a document whose text is one character over the ceiling has
\* been rejected.
C6_Witness ==
    /\ job_pc = "rejected"
    /\ flow = "document"
    /\ Len(job_text) = MAX_TEXT_LENGTH + 1

\* C7 (as claimed): a temporary file exists only while the chunk that
\* created it is being processed; when the chunk has ended, it is deleted.
C7_StagingFilesDeleted ==
    \A f \in live_files :
        f.part = part /\ job_pc \in {"az_rest", "synth_done", "deliver"}

\* C8: with the Azure key unset, empty or the placeholder,
\* azure_text_to_speech returns no audio and the configuration diagnostic,
\* and neither azure_sdk_synthesis nor azure_rest_synthesis is called and
\* no request goes to Azure.
C8_NoCallWithoutKey ==
    (UsesAzure /\ azure_cfg.key \in {None, "", PLACEHOLDER_KEY}) =>
        /\ job_pc \notin {"az_sdk", "az_rest"}
        /\ calls = <<>>
        /\ requests = <<>>
        /\ job_pc = "synth_done" =>
              /\ audio_content = None
              /\ error_message = Msg("Azure Speech key not properly configured")

\* C8 witness: azure_text_to_speech has returned for a process whose key
\* is the placeholder.
C8_Witness ==
    /\ UsesAzure
    /\ azure_cfg.key = PLACEHOLDER_KEY
    /\ job_pc = "synth_done"
    /\ Len(attempts) = 1

AzureArgs == attempts[Len(attempts)]

SameArgs(c) == c.text = AzureArgs.text /\ c.voice = AzureArgs.voice

\* C9: azure_rest_synthesis is called exactly when azure_sdk_synthesis gave
\* no audio, once, after it, and with the text and voice of the call of
\* azure_text_to_speech, which the SDK attempt got too; when the SDK
\* attempt gave audio it is the only call.
C9_RestFallback ==
    /\ job_pc = "az_rest" =>
          /\ Len(calls) = 1
          /\ calls[1].fn = "azure_sdk_synthesis"
          /\ ~Truthy(sdk_result.audio)
    /\ (UsesAzure /\ ~KeyMissing(azure_cfg.key)
            /\ job_pc \in {"synth_done", "deliver"}) =>
          /\ calls[1].fn = "azure_sdk_synthesis" /\ SameArgs(calls[1])
          /\ IF Truthy(sdk_result.audio)
             THEN Len(calls) = 1
             ELSE /\ Len(calls) = 2
                  /\ calls[2].fn = "azure_rest_synthesis"
                  /\ SameArgs(calls[2])

\* C9 witness: the SDK attempt was cancelled and the REST attempt, made
\* after it, gave the audio.
C9_Witness ==
    /\ job_pc = "synth_done"
    /\ sdk_result.error = Msg("Azure TTS cancelled")
    /\ Len(calls) = 2
    /\ audio_content = "mp3"

\* C10 (as claimed): when the SDK attempt and the REST attempt both fail,
\* the error azure_text_to_speech returns carries the error of the SDK
\* attempt and the error of the REST attempt.
C10_CombinedDiagnostic ==
    (job_pc = "synth_done" /\ UsesAzure /\ Len(calls) = 2
        /\ ~Truthy(sdk_result.audio) /\ ~Truthy(rest_result.audio)) =>
        /\ sdk_result.error \subseteq error_message
        /\ rest_result.error \subseteq error_message

\* a status that shows "part i/total" before chunk i is synthesized
IsProgress(st) ==
    st.kind = "converting_part" \/ (st.kind = "multi_intro" /\ st.part >= 1)

ProgressStatuses == SelectSeq(statuses, IsProgress)

\* chunks whose synthesis was started and that have not ended
Outstanding == Len(attempts) - Len(results)

\* C15: within one request the chunks are synthesized one at a time and
\* in index order: the k-th call of a backend is for chunk k, a call is
\* made only when every earlier chunk has been delivered or reported
\* failed, so at most one chunk is in work, and in a multi-part request the
\* progress statuses show the parts 1, 2, ... in this order, one per chunk,
\* up to the total.
C15_OneAtATime ==
    Accepted =>
        /\ Outstanding \in {0, 1}
        /\ Outstanding = 1 <=> job_pc \in {"az_sdk", "az_rest", "synth_done", "deliver"}
        /\ \A k \in 1..Len(attempts) : attempts[k].part = k
        /\ \A k \in 1..Len(results) : results[k].part = k
        /\ Total > 1 =>
              /\ \A j \in 1..Len(ProgressStatuses) : ProgressStatuses[j].part = j
              /\ Len(ProgressStatuses) \in {Len(attempts), Len(attempts) + 1}
              /\ Len(ProgressStatuses) = Len(attempts) + 1
                    => (flow = "epub" /\ attempts = <<>>)
              /\ job_pc = "done" => Len(ProgressStatuses) = Total

\* C15 witness: a chapter of three chunks has been processed, the second
\* chunk delivered as an audio file after the first one failed.
C15_Witness ==
    /\ job_pc = "done"
    /\ flow = "epub"
    /\ Total = 3
    /\ Len(ProgressStatuses) = 3
    /\ results[1].outcome = "failed"
    /\ results[2].outcome = "audio"
\* C18 (as claimed): a configuration error ends the request: in a
\* multi-part request with the Azure key unset, empty or the placeholder,
\* the error is reported once and no backend call is made for the chunks
\* after the first.
C18_ConfigErrorFatal ==
    (Accepted /\ Total > 1 /\ UsesAzure
        /\ azure_cfg.key \in {None, "", PLACEHOLDER_KEY}) =>
        /\ Len(attempts) <= 1
        /\ CountKind("azure_error") <= 1

\* C16: for a user who has an entry in the settings store, every step of a
\* text, document or chapter request, failures included, leaves that entry
\* as it is, and leaves tts_service, voice_id and azure_voice_name of the
\* in-memory user data as they are; where the user data is still empty
\* after a restart, the request loads the stored values into it and
\* nothing else.
C16_SettingsFrame ==
    [][user_settings # {} =>
          /\ user_settings' = user_settings
          /\ user_data # EmptyUserData => user_data' = user_data
          /\ user_data = EmptyUserData => user_data' \in user_settings]_vars

\* C16 witness: a document request of a user with settings other than the
\* defaults has ended, one chunk delivered and one failed, and the user
\* data and the store hold those settings.
C16_Witness ==
    /\ job_pc = "done"
    /\ flow = "document"
    /\ user_data # DEFAULT_SETTINGS
    /\ user_settings = {user_data}
    /\ \E j, k \in 1..Len(results) :
          results[j].outcome = "failed" /\ results[k].outcome = "voice"
(***************************************************************************)
(* Claims about two users, checked under DuoSpec.                          *)
(***************************************************************************)
\* the call and the caption of part i of user u's request when it is the
\* only one: the user's own service and voice, the i-th chunk of the
\* user's text, the name made from the user's file base name
SoloCall(u, i) ==
    LET service == duo_data[u].tts_service
    IN  [part |-> i, backend |-> service,
         voice |-> IF service = TTS_SERVICE_ELEVENLABS
                   THEN duo_data[u].voice_id ELSE duo_data[u].azure_voice_name,
         text |-> SplitTextIntoChunks(duo_jobs[u].text, MAX_CHUNK_SIZE)[i]]

SoloLabel(u, i) ==
    TextToSpeechLabel(duo_jobs[u].file_name_base, i,
                      Len(SplitTextIntoChunks(duo_jobs[u].text, MAX_CHUNK_SIZE)))

\* however the two requests interleave, each has made the calls and given
\* the captions it makes and gives alone
SameAsAlone ==
    \A u \in Users :
        /\ Len(duo_jobs[u].labels) = Len(duo_jobs[u].calls)
        /\ \A i \in 1..Len(duo_jobs[u].calls) :
              /\ duo_jobs[u].calls[i] = SoloCall(u, i)
              /\ duo_jobs[u].labels[i] = SoloLabel(u, i)
        /\ duo_jobs[u].pc = "done" =>
              Len(duo_jobs[u].calls) =
                  Len(SplitTextIntoChunks(duo_jobs[u].text, MAX_CHUNK_SIZE))

\* a step of a request (not of a settings menu)
JobStep == duo_jobs' # duo_jobs

ShowsCurrentOfTotal(f, total, kind) ==
    \/ kind = "converting_part"
    \/ kind = "multi_intro" /\ ~IsPlain(f)
    \/ kind \in {"failed", "exception_error"} /\ IsPlain(f) /\ total > 1

\* the text of a status of the given kind speaks of parts
MentionsParts(f, total, kind) ==
    \/ ShowsCurrentOfTotal(f, total, kind)
    \/ kind \in {"multi_intro", "completed"}

\* the statuses sent for one chunk
ChunkStatuses == SelectSeq(statuses, LAMBDA st : st.part >= 1)

\* the captions have no part suffix and no status speaks of parts
NoPartFraming ==
    /\ \A k \in 1..Len(results) : results[k].suffix = <<>>
    /\ \A j \in 1..Len(statuses) : ~MentionsParts(flow, Total, statuses[j].kind)

\* the caption of every part carries its index, in the form of its flow
SuffixesCarryIndex ==
    \A k \in 1..Len(results) :
        results[k].suffix =
            IF flow = "epub" THEN <<"-">> \o DecimalStr(k)
            ELSE <<"_", "p", "a", "r", "t", "_">> \o DecimalStr(k)
                     \o <<"_", "o", "f", "_">> \o DecimalStr(Total)

\* C24 (as claimed): in an accepted request of one part no caption has a
\* part suffix and no status speaks of parts; in one of several parts
\* every status sent for a chunk shows current/total and every caption
\* carries the index of its part in the form of its flow.
C24_PartFramingClaimed ==
    Accepted =>
        /\ Total = 1 => NoPartFraming
        /\ Total > 1 =>
              /\ SuffixesCarryIndex
              /\ \A j \in 1..Len(ChunkStatuses) :
                    ShowsCurrentOfTotal(flow, Total, ChunkStatuses[j].kind)

\* C24 (amended): in an accepted request of one part no caption has a part
\* suffix and no status speaks of parts; in one of several parts every
\* caption carries the index of its part in the form of its flow, and every
\* chunk whose synthesis was started was announced by a status showing its
\* own index with the total.  The reports of a failed chunk are not all
\* framed.
C24_PartFraming ==
    Accepted =>
        /\ Total = 1 => NoPartFraming
        /\ Total > 1 =>
              /\ SuffixesCarryIndex
              /\ \A k \in 1..Len(attempts) :
                    \E j \in 1..Len(statuses) :
                        /\ statuses[j].part = k
                        /\ IsProgress(statuses[j])
                        /\ ShowsCurrentOfTotal(flow, Total, statuses[j].kind)

\* C24 witness: a request of several parts is over, one part was delivered
\* under a numbered caption and another failed with an Azure error report,
\* which shows no current/total.
C24_Witness ==
    /\ job_pc = "done"
    /\ Total > 1
    /\ \E k \in 1..Len(results) :
          results[k].outcome = "voice" /\ results[k].suffix # <<>>
    /\ \E j \in 1..Len(statuses) :
          /\ statuses[j].kind = "azure_error"
          /\ ~ShowsCurrentOfTotal(flow, Total, statuses[j].kind)

(***************************************************************************)
(* The backend of a request.                                               *)
(***************************************************************************)
\* the network requests and synthesis functions that belong to a backend
BackendRequests(backend) ==
    IF backend = TTS_SERVICE_ELEVENLABS THEN {"elevenlabs"}
    ELSE {"azure_sdk", "azure_rest"}

C26_EmptyNotSynthesized ==
    flow = "document" =>
        \A k \in 1..Len(attempts) : attempts[k].text # <<>>

(***************************************************************************)
(* The window of the cut points and the number of chunks.                  *)
(***************************************************************************)
\* C27: with max_size >= 2, every pass of the loop that cuts chooses its
\* cut point between max_size // 2 and max_size, so the remaining text
\* gets shorter by at least max_size // 2 characters, and at every moment
\* the chunks are at most len(text) // (max_size // 2) + 1.
C27_CutWindow ==
    [][max_chunk_size >= 2 =>
         /\ AtCut =>
               /\ chunk_end' \in (max_chunk_size \div 2)..max_chunk_size
               /\ Len(remaining_text') <=
                      Len(remaining_text) - max_chunk_size \div 2
         /\ Len(chunks') <= Len(text) \div (max_chunk_size \div 2) + 1]_vars

\* C27 witness: a text was split in three chunks or more with
\* max_size >= 2, and the last cut was made at max_size // 2, the low end
\* of the window.
C27_Witness ==
    /\ split_pc = "done"
    /\ max_chunk_size >= 2
    /\ Len(chunks) >= 3
    /\ chunk_end = max_chunk_size \div 2

(***************************************************************************)
(* The completion status.                                                  *)
(***************************************************************************)
\* the request is over and its last status is the completion status
CompletedLast ==
    /\ job_pc = "done"
    /\ statuses # <<>>
    /\ statuses[Len(statuses)].kind = "completed"

============================================================================
